---- MODULE Spec2Model ----
(***************************************************************************)
(* A model of karcher/karcher.py: the KarcherHome client.                  *)
(*                                                                         *)
(* Text is modelled as a sequence of one-character strings, so that the    *)
(* concatenations the signer performs are real concatenations.             *)
(***************************************************************************)
EXTENDS Integers, Sequences, FiniteSets, TLC

VARIABLES
    base_url,   \* KarcherHome._base_url
    sess,       \* the caller's Session object (None before login)
    op,         \* the operation that ran last
    call,       \* the arguments and environment inputs of that operation
    requests,   \* the signed requests it issued, in order
    downloads,  \* the URLs it downloaded, in order
    trace,      \* the steps it ran, in order
    outcome     \* what it returned or raised

vars == <<base_url, sess, op, call, requests, downloads, trace, outcome>>

(***************************************************************************)
(* Bounds of the model.                                                    *)
(***************************************************************************)
MaxFields == 2      \* fields in a request body
MaxChannel == 3     \* map channel indices 0..MaxChannel

(***************************************************************************)
(* Values.                                                                 *)
(***************************************************************************)
None == [t |-> "none"]
Null == [t |-> "null"]
StrV(s) == [t |-> "str", s |-> s]
IntV(n) == [t |-> "int", n |-> n]
DictV(items) == [t |-> "dict", items |-> items]
ListV(items) == [t |-> "list", items |-> items]

RECURSIVE Concat(_)
Concat(ss) == IF ss = <<>> THEN <<>> ELSE Head(ss) \o Concat(Tail(ss))

RECURSIVE Join(_, _)
Join(sep, ss) ==
    IF ss = <<>> THEN <<>>
    ELSE IF Len(ss) = 1 THEN Head(ss)
    ELSE Head(ss) \o sep \o Join(sep, Tail(ss))

Digit(n) == <<"0", "1", "2", "3", "4", "5", "6", "7", "8", "9">>[n + 1]

\* str(n) of a non-negative int
RECURSIVE Decimal(_)
Decimal(n) == IF n < 10 THEN <<Digit(n)>> ELSE Decimal(n \div 10) \o <<Digit(n % 10)>>

\* json.dumps of a scalar: a quoted string or a number
JsonScalar(v) ==
    IF v.t = "str" THEN <<"\"">> \o v.s \o <<"\"">>
    ELSE IF v.t = "null" THEN <<"n", "u", "l", "l">>
    ELSE Decimal(v.n)

\* json.dumps(val, separators=(',', ':')) of a dict or a list of scalars
JsonCompact(v) ==
    IF v.t = "dict"
    THEN <<"{">> \o Join(<<",">>, [i \in 1..Len(v.items) |->
                 <<"\"">> \o v.items[i][1] \o <<"\"", ":">> \o JsonScalar(v.items[i][2])])
         \o <<"}">>
    ELSE IF v.t = "list"
    THEN <<"[">> \o Join(<<",">>, [i \in 1..Len(v.items) |-> JsonScalar(v.items[i])]) \o <<"]">>
    ELSE JsonScalar(v)

\* repr(v) of a scalar, as str() of a container prints its elements
PyRepr(v) ==
    IF v.t = "str" THEN <<"'">> \o v.s \o <<"'">>
    ELSE IF v.t = "null" THEN <<"N", "o", "n", "e">>
    ELSE Decimal(v.n)

\* str(val)
PyStr(v) ==
    IF v.t = "str" THEN v.s
    ELSE IF v.t = "null" THEN <<"N", "o", "n", "e">>
    ELSE IF v.t = "int" THEN Decimal(v.n)
    ELSE IF v.t = "list"
    THEN <<"[">> \o Join(<<",", " ">>, [i \in 1..Len(v.items) |-> PyRepr(v.items[i])]) \o <<"]">>
    ELSE <<"{">> \o Join(<<",", " ">>, [i \in 1..Len(v.items) |->
                 <<"'">> \o v.items[i][1] \o <<"'", ":", " ">> \o PyRepr(v.items[i][2])])
         \o <<"}">>

\* urllib.parse.quote_plus of one character
QuoteChar(c) ==
    IF c = " " THEN <<"+">>
    ELSE IF c = "/" THEN <<"%", "2", "F">>
    ELSE IF c = "=" THEN <<"%", "3", "D">>
    ELSE IF c = "&" THEN <<"%", "2", "6">>
    ELSE <<c>>

QuotePlus(s) == Concat([i \in 1..Len(s) |-> QuoteChar(s[i])])

\* urllib.parse.urlencode of a dict of strings (a sequence of <<key, value>>)
UrlEncode(params) ==
    Join(<<"&">>, [i \in 1..Len(params) |->
        QuotePlus(params[i][1]) \o <<"=">> \o QuotePlus(params[i][2])])

\* utils.md5: a digest, modelled as collision-free
Md5(s) == [md5 |-> s]

TENANT_ID == <<"t", "n">>
PROJECT_TYPE == <<"p", "t">>
PROTOCOL_VERSION == <<"v", "1">>
UserAgent == <<"A", "n", "d", "r", "o", "i", "d", "_">> \o TENANT_ID

(***************************************************************************)
(* KarcherHome._request                                                    *)
(***************************************************************************)
Session(token, uid) == [t |-> "session", auth_token |-> token, user_id |-> uid]

\* RenderValue without the dict branch: a dict falls through to str()
RenderValueNoJson(val) ==
    IF val.t = "null" THEN <<"n", "u", "l", "l">>
    ELSE IF val.t = "str" THEN val.s
    ELSE PyStr(val)

\* the rendering of one body value in the signing string
RenderValue(val) ==
    IF val.t = "null" THEN <<"n", "u", "l", "l">>
    ELSE IF val.t = "str" THEN val.s
    ELSE IF val.t = "dict" THEN JsonCompact(val)
    ELSE PyStr(val)

\* CanonicalBody over the fields in an order that ignores insertion order
CanonicalBodyUnordered(json) ==
    LET n == Len(json)
        sorted == CHOOSE b \in {[i \in 1..n |-> json[f[i]]] : f \in Permutations(1..n)} : TRUE
    IN  Concat([i \in 1..n |-> sorted[i][1] \o RenderValue(sorted[i][2])])

\* the signing string of a dict body: fields in insertion order
CanonicalBody(json) ==
    Concat([i \in 1..Len(json) |-> json[i][1] \o RenderValue(json[i][2])])

\* SignData that leaves the query out of the signature
SignDataNoQuery(method, params, json) ==
    IF method = "POST" \/ method = "PUT" THEN CanonicalBody(json) ELSE <<>>

\* data, as _request builds it for the method
SignData(method, params, json) ==
    IF method = "GET" THEN UrlEncode(params)
    ELSE IF method = "POST" \/ method = "PUT" THEN CanonicalBody(json)
    ELSE <<>>

\* auth: the session's token, or '' without one
AuthOf(s) == IF s.t # "none" /\ s.auth_token # <<>> THEN s.auth_token ELSE <<>>

\* HeaderNames with one test for both session headers
HeaderNamesBoth(s) ==
    {"User-Agent", "tenantId", "sign", "ts", "nonce"}
        \cup (IF s.t # "none" /\ s.auth_token # <<>> /\ s.user_id # <<>>
              THEN {"authorization", "id"} ELSE {})

\* the names of the headers _request sets
HeaderNames(s) ==
    {"User-Agent", "tenantId", "sign", "ts", "nonce"}
        \cup (IF s.t # "none" /\ s.auth_token # <<>> THEN {"authorization"} ELSE {})
        \cup (IF s.t # "none" /\ s.user_id # <<>> THEN {"id"} ELSE {})

SignHeader(auth, ts, nonce, data) == Md5(auth \o ts \o nonce \o data)

Headers(s, ts, nonce, data) ==
    [h \in HeaderNames(s) |->
        CASE h = "User-Agent" -> UserAgent
          [] h = "tenantId" -> TENANT_ID
          [] h = "authorization" -> AuthOf(s)
          [] h = "id" -> s.user_id
          [] h = "sign" -> SignHeader(AuthOf(s), ts, nonce, data)
          [] h = "ts" -> ts
          [] h = "nonce" -> nonce]

\* the request _request hands to the transport
Request(s, method, path, params, json, ts, nonce) ==
    [method |-> method,
     url |-> base_url \o path,
     query |-> UrlEncode(params),
     json |-> json,
     headers |-> Headers(s, ts, nonce, SignData(method, params, json))]

(***************************************************************************)
(* KarcherHome._process_response                                           *)
(***************************************************************************)
Ok(v) == [kind |-> "ok", code |-> 0, value |-> v]
Fail(kind, code) == [kind |-> kind, code |-> code, value |-> None]

Absent == [t |-> "absent"]
MapV(f) == [t |-> "map", f |-> f]
Cipher(plain) == [t |-> "cipher", plain |-> plain]
Garbage == [t |-> "garbage"]
JsonText(v) == [t |-> "json", v |-> v]
NoProp == "<None>"

ACCESS_DENIED_CODE == 1001

\* exception.handle_error_code: raises, AccessDenied for the access-denied code
HandleErrorCode(code) ==
    IF code = ACCESS_DENIED_CODE THEN Fail("KarcherHomeAccessDenied", code)
    ELSE Fail("KarcherHomeException", code)

\* utils.decrypt, then json.loads
DecryptJson(c) ==
    IF c.t = "cipher" /\ c.plain.t = "json" THEN Ok(c.plain.v)
    ELSE Fail("DecodeError", 0)

\* json.loads(decrypt(result[prop]))
DecryptField(result, prop) ==
    IF result.t # "map" THEN Fail("TypeError", 0)
    ELSE IF prop \notin DOMAIN result.f THEN Fail("KeyError", 0)
    ELSE DecryptJson(result.f[prop])

\* _process_response with the envelope code tested before the HTTP status
ProcessResponseCodeFirst(resp, prop) ==
    IF resp.json_ok /\ resp.code # 0 THEN HandleErrorCode(resp.code)
    ELSE IF resp.status # 200 THEN Fail("KarcherHomeException", -1)
    ELSE IF ~resp.json_ok THEN Fail("JSONDecodeError", 0)
    ELSE IF resp.result.t = "absent" THEN Ok(None)
    ELSE IF resp.result.t = "str" THEN Fail("KarcherHomeException", -2)
    ELSE IF prop # NoProp THEN DecryptField(resp.result, prop)
    ELSE Ok(resp.result)

ProcessResponse(resp, prop) ==
    IF resp.status # 200 THEN Fail("KarcherHomeException", -1)
    ELSE IF ~resp.json_ok THEN Fail("JSONDecodeError", 0)
    ELSE IF resp.code # 0 THEN HandleErrorCode(resp.code)
    ELSE IF resp.result.t = "absent" THEN Ok(None)
    ELSE IF resp.result.t = "str" THEN Fail("KarcherHomeException", -2)
    ELSE IF prop # NoProp THEN DecryptField(resp.result, prop)
    ELSE Ok(resp.result)

Response(status, json_ok, code, result) ==
    [status |-> status, json_ok |-> json_ok, code |-> code, result |-> result]

DomainsObj == [t |-> "Domains"]
DomainResults ==
    {Absent, StrV(<<>>), StrV(<<"e", "r", "r">>), ListV(<<>>),
     MapV([x \in {"domain"} |-> Cipher(JsonText(DomainsObj))]),
     MapV([x \in {"domain"} |-> Cipher([t |-> "text"])]),
     MapV([x \in {"domain"} |-> Garbage]),
     MapV([x \in {"other"} |-> Garbage])}
ErrorCodes == {0, ACCESS_DENIED_CODE, 5}

EnvelopeCalls ==
    {[resp |-> Response(st, j, c, r), prop |-> pr] :
        st \in {200, 500}, j \in BOOLEAN, c \in ErrorCodes, r \in DomainResults,
        pr \in {NoProp, "domain"}}

(***************************************************************************)
(* SpecEnvelope: _process_response as a function of the response.          *)
(***************************************************************************)
InitEnvelope ==
    /\ base_url = <<"r">>
    /\ sess = None
    /\ op = "input"
    /\ call \in EnvelopeCalls
    /\ requests = <<>>
    /\ downloads = <<>>
    /\ trace = <<>>
    /\ outcome = None

ProcessCall ==
    /\ op = "input"
    /\ op' = "_process_response"
    /\ outcome' = ProcessResponse(call.resp, call.prop)
    /\ UNCHANGED <<base_url, sess, call, requests, downloads, trace>>

NextEnvelope == ProcessCall

SpecEnvelope == InitEnvelope /\ [][NextEnvelope]_vars

\* C4: the outcome of _process_response follows a fixed precedence:
\* (1) a status other than 200 is a transport error whatever the body holds;
\* (2) else a non-zero envelope code is a service error, AccessDenied for the
\* access-denied code; (3) else a missing result is a success with an empty
\* result, also when a field was requested; (4) else a bare-string result,
\* the empty string included, is a malformed-response failure; (5) else the
\* result is returned unmodified or, when a field was requested, that field
\* decrypted and parsed.  A bare-string result is never a success.
C4_Precedence ==
    op = "_process_response" =>
        LET r == call.resp
            o == outcome
            parsed == r.status = 200 /\ r.json_ok
        IN
        /\ r.status # 200 => (o.kind = "KarcherHomeException" /\ o.code = -1)
        /\ (parsed /\ r.code # 0) =>
              /\ o.kind = (IF r.code = ACCESS_DENIED_CODE
                           THEN "KarcherHomeAccessDenied" ELSE "KarcherHomeException")
              /\ o.code = r.code
        /\ (parsed /\ r.code = 0 /\ r.result.t = "absent") =>
              (o.kind = "ok" /\ o.value = None)
        /\ (parsed /\ r.code = 0 /\ r.result.t = "str") =>
              (o.kind = "KarcherHomeException" /\ o.code = -2)
        /\ (parsed /\ r.code = 0 /\ r.result.t \notin {"absent", "str"}) =>
              /\ call.prop = NoProp => (o.kind = "ok" /\ o.value = r.result)
              /\ (/\ call.prop # NoProp
                  /\ r.result.t = "map"
                  /\ call.prop \in DOMAIN r.result.f
                  /\ r.result.f[call.prop].t = "cipher"
                  /\ r.result.f[call.prop].plain.t = "json") =>
                    (o.kind = "ok" /\ o.value = r.result.f[call.prop].plain.v)
              /\ o.kind \in {"ok", "DecodeError", "KeyError", "TypeError"}
        /\ r.result.t = "str" => o.kind # "ok"

C4_Witness ==
    /\ op = "_process_response"
    /\ call.resp.status = 200
    /\ call.resp.code = 0
    /\ call.resp.result = StrV(<<>>)
    /\ call.prop = "domain"
    /\ outcome.kind = "KarcherHomeException"
    /\ outcome.code = -2

(***************************************************************************)
(* The operations of KarcherHome.  Each returns what it did: the session   *)
(* it leaves, the signed requests and downloads it issued, the steps it    *)
(* ran and what it returned or raised.                                     *)
(***************************************************************************)
EmptySession == Session(<<>>, <<>>)

\* Session.reset()
Reset(s) == EmptySession

\* Session.get_country_code()
CountryCode(s) == <<"D", "E">>

Did(s, reqs, dls, steps, out) ==
    [sess |-> s, requests |-> reqs, downloads |-> dls, trace |-> steps, outcome |-> out]

NotAuthorized(s) == s = None \/ s.auth_token = <<>> \/ s.user_id = <<>>

\* a response with status 0 stands for session.request raising instead of answering
NetDown == Response(0, FALSE, 0, Absent)

\* _request, then _process_response on its answer
SignedCall(s, req, resp, prop) ==
    IF resp = NetDown
    THEN Did(s, <<req>>, <<>>, <<"request">>, Fail("ConnectionError", 0))
    ELSE Did(s, <<req>>, <<>>, <<"request", "process">>, ProcessResponse(resp, prop))

DomainsPath == <<"/", "n", "e", "t", "w", "o", "r", "k", "-", "s", "e", "r", "v", "i", "c", "e", "/", "d", "o", "m", "a", "i", "n", "s", "/", "l", "i", "s", "t">>
GetUrlsRun(resp, ts, nonce) ==
    LET params == << <<(<<"t", "e", "n", "a", "n", "t", "I", "d">>), TENANT_ID>>, <<(<<"p", "r", "o", "d", "u", "c", "t", "M", "o", "d", "e", "C", "o", "d", "e">>), PROJECT_TYPE>>,
                     <<(<<"v", "e", "r", "s", "i", "o", "n">>), PROTOCOL_VERSION>> >>
        req == Request(None, "GET", DomainsPath, params, <<>>, ts, nonce)
        r == SignedCall(None, req, resp, "domain")
    IN  IF r.outcome.kind = "ok" /\ r.outcome.value = None
        THEN [r EXCEPT !.outcome = Fail("TypeError", 0)]
        ELSE r

\* utils.is_email
IsEmail(u) == \E i \in DOMAIN u : u[i] = "@"

\* utils.encrypt, as text
Encrypt(x) == <<"E", "(">> \o x \o <<")">>

LoginPath == <<"/", "u", "s", "e", "r", "-", "c", "e", "n", "t", "e", "r", "/", "a", "u", "t", "h", "/", "l", "o", "g", "i", "n">>
LoginBody(username, password, register_id) ==
    LET name == IF IsEmail(username) THEN username ELSE <<"8", "6", "-">> \o username
    IN  << <<(<<"t", "e", "n", "a", "n", "t", "I", "d">>), StrV(TENANT_ID)>>,
           <<(<<"l", "a", "n", "g">>), StrV(<<"e", "n">>)>>,
           <<(<<"t", "o", "k", "e", "n">>), Null>>,
           <<(<<"u", "s", "e", "r", "I", "d">>), Null>>,
           <<(<<"p", "a", "s", "s", "w", "o", "r", "d">>), StrV(Encrypt(password))>>,
           <<(<<"u", "s", "e", "r", "n", "a", "m", "e">>), StrV(Encrypt(name))>>,
           <<(<<"a", "u", "t", "h", "c", "o", "d", "e">>), Null>>,
           <<(<<"p", "r", "o", "j", "e", "c", "t", "T", "y", "p", "e">>), StrV(PROJECT_TYPE)>>,
           <<(<<"v", "e", "r", "s", "i", "o", "n", "C", "o", "d", "e">>), IntV(1)>>,
           <<(<<"v", "e", "r", "s", "i", "o", "n", "N", "a", "m", "e">>), StrV(<<"1", ".", "0">>)>>,
           <<(<<"p", "h", "o", "n", "e", "B", "r", "a", "n", "d">>),
             StrV(Encrypt(<<"x", "i", "a", "o", "m", "i", "_", "m", "i", " ", "9">>))>>,
           <<(<<"p", "h", "o", "n", "e", "S", "y", "s">>), IntV(1)>>,
           <<(<<"n", "o", "t", "i", "c", "e", "S", "e", "t", "t", "i", "n", "g">>),
             DictV(<< <<(<<"a", "n", "d", "I", "p", "a", "d">>), StrV(register_id)>>,
                      <<(<<"a", "n", "d", "r", "o", "i", "d">>), StrV(register_id)>> >>)>> >>

\* Session(**d): the fields the response gives, '' for the others
SessionFrom(d) ==
    Session(IF "auth_token" \in DOMAIN d.f THEN d.f["auth_token"] ELSE <<>>,
            IF "user_id" \in DOMAIN d.f THEN d.f["user_id"] ELSE <<>>)

\* login: the caller's session variable is bound to the session returned
LoginRun(s, username, password, register_id, resp, ts, nonce) ==
    LET req == Request(None, "POST", LoginPath, <<>>,
                       LoginBody(username, password, register_id), ts, nonce)
        r == SignedCall(s, req, resp, NoProp)
    IN  IF r.outcome.kind # "ok" THEN r
        ELSE IF r.outcome.value.t # "map"
        THEN [r EXCEPT !.outcome = Fail("TypeError", 0)]
        ELSE [r EXCEPT !.sess = SessionFrom(r.outcome.value),
                       !.outcome = Ok(SessionFrom(r.outcome.value))]

LogoutPath == <<"/", "u", "s", "e", "r", "-", "c", "e", "n", "t", "e", "r", "/", "a", "u", "t", "h", "/", "l", "o", "g", "o", "u", "t">>
\* logout that resets the session whether or not the request succeeded
LogoutRunAlwaysReset(s, resp, ts, nonce) ==
    IF s = None THEN Did(s, <<>>, <<>>, <<>>, Fail("AttributeError", 0))
    ELSE IF s.auth_token = <<>> \/ s.user_id = <<>>
    THEN Did(Reset(s), <<>>, <<>>, <<"reset">>, Ok(None))
    ELSE LET r == SignedCall(s, Request(s, "POST", LogoutPath, <<>>, <<>>, ts, nonce),
                             resp, NoProp)
         IN  [r EXCEPT !.sess = Reset(s), !.trace = Append(r.trace, "reset")]

\* logout whose early return leaves the session as it is
LogoutRunNoReset(s, resp, ts, nonce) ==
    IF s = None THEN Did(s, <<>>, <<>>, <<>>, Fail("AttributeError", 0))
    ELSE IF s.auth_token = <<>> \/ s.user_id = <<>>
    THEN Did(s, <<>>, <<>>, <<>>, Ok(None))
    ELSE LET r == SignedCall(s, Request(s, "POST", LogoutPath, <<>>, <<>>, ts, nonce),
                             resp, NoProp)
         IN  IF r.outcome.kind # "ok" THEN r
             ELSE [r EXCEPT !.sess = Reset(s), !.trace = Append(r.trace, "reset"),
                            !.outcome = Ok(None)]

LogoutRun(s, resp, ts, nonce) ==
    IF s = None THEN Did(s, <<>>, <<>>, <<>>, Fail("AttributeError", 0))
    ELSE IF s.auth_token = <<>> \/ s.user_id = <<>>
    THEN Did(Reset(s), <<>>, <<>>, <<"reset">>, Ok(None))
    ELSE LET r == SignedCall(s, Request(s, "POST", LogoutPath, <<>>, <<>>, ts, nonce),
                             resp, NoProp)
         IN  IF r.outcome.kind # "ok" THEN r
             ELSE [r EXCEPT !.sess = Reset(s), !.trace = Append(r.trace, "reset"),
                            !.outcome = Ok(None)]

DevicesPath == <<"/", "s", "m", "a", "r", "t", "-", "h", "o", "m", "e", "-", "s", "e", "r", "v", "i", "c", "e", "/", "s", "m", "a", "r", "t", "H", "o", "m", "e", "/", "u", "s", "e", "r", "/", "g", "e", "t", "D", "e", "v", "i", "c", "e", "I", "n", "f", "o", "B", "y", "U", "s", "e", "r", "I", "d", "/">>
GetDevicesRun(s, resp, ts, nonce) ==
    IF NotAuthorized(s)
    THEN Did(s, <<>>, <<>>, <<>>, Fail("KarcherHomeAccessDenied", 0))
    ELSE LET r == SignedCall(s, Request(s, "GET", DevicesPath \o s.user_id, <<>>, <<>>,
                                           ts, nonce), resp, NoProp)
         IN  IF r.outcome.kind = "ok" /\ r.outcome.value.t # "list"
             THEN [r EXCEPT !.outcome = Fail("TypeError", 0)]
             ELSE r

FamiliesPath == <<"/", "s", "m", "a", "r", "t", "-", "h", "o", "m", "e", "-", "s", "e", "r", "v", "i", "c", "e", "/", "s", "m", "a", "r", "t", "H", "o", "m", "e", "/", "f", "a", "m", "i", "l", "y", "I", "n", "f", "o", "/", "l", "i", "s", "t", "/">>
GetFamiliesRun(s, resp, ts, nonce) ==
    IF NotAuthorized(s)
    THEN Did(s, <<>>, <<>>, <<>>, Fail("KarcherHomeAccessDenied", 0))
    ELSE SignedCall(s, Request(s, "GET", FamiliesPath \o s.user_id, <<>>, <<>>,
                                  ts, nonce), resp, NoProp)

ConsumablesPath == <<"/", "s", "m", "a", "r", "t", "-", "h", "o", "m", "e", "-", "s", "e", "r", "v", "i", "c", "e", "/", "s", "m", "a", "r", "t", "H", "o", "m", "e", "/", "c", "o", "n", "s", "u", "m", "a", "b", "l", "e", "s", "I", "n", "f", "o", "/", "g", "e", "t", "C", "o", "n", "s", "u", "m", "a", "b", "l", "e", "s", "I", "n", "f", "o", "B", "y", "F", "a", "m", "i", "l", "y", "I", "d", "/">>
GetConsumablesRun(s, familyID, resp, ts, nonce) ==
    IF NotAuthorized(s)
    THEN Did(s, <<>>, <<>>, <<>>, Fail("KarcherHomeAccessDenied", 0))
    ELSE SignedCall(s, Request(s, "GET", ConsumablesPath \o familyID, <<>>, <<>>,
                                  ts, nonce), resp, NoProp)

(***************************************************************************)
(* get_map_data                                                            *)
(***************************************************************************)
Dev == [sn |-> <<"s", "n", "1">>, mac |-> <<"m", "a", "c">>,
        product_id |-> <<"p", "i", "d">>, product_mode_code |-> <<"p", "m", "c">>]

MapDir(dev, map) ==
    TENANT_ID \o <<"/">> \o dev.product_mode_code \o <<"/">> \o dev.sn
        \o <<"/", "0", "1", "-", "0", "1", "-", "2", "0", "2", "2", "/", "m", "a", "p", "/", "t", "e", "m", "p", "/", "0", "0", "4", "6", "6", "9", "0", "4", "6", "1", "_">> \o dev.sn \o <<"_">> \o Decimal(map)

AccessUrlPath == <<"/", "s", "t", "o", "r", "a", "g", "e", "-", "m", "a", "n", "a", "g", "e", "m", "e", "n", "t", "/", "s", "t", "o", "r", "a", "g", "e", "/", "a", "w", "s", "/", "g", "e", "t", "A", "c", "c", "e", "s", "s", "U", "r", "l">>
MapBody(s, dev, map) ==
    << <<(<<"d", "i", "r">>), StrV(MapDir(dev, map))>>,
       <<(<<"c", "o", "u", "n", "t", "r", "y", "C", "o", "d", "e">>), StrV(CountryCode(s))>>,
       <<(<<"s", "e", "r", "v", "i", "c", "e", "T", "y", "p", "e">>), IntV(2)>>,
       <<(<<"t", "e", "n", "a", "n", "t", "I", "d">>), StrV(TENANT_ID)>> >>

HTTPS == <<"h", "t", "t", "p", "s", ":", "/", "/">>

\* the URL resolution with the CDN domain used whenever the field is there
DownloadUrlAnyCdn(d) ==
    IF d.t # "map" THEN Fail("TypeError", 0)
    ELSE IF "url" \notin DOMAIN d.f THEN Fail("KeyError", 0)
    ELSE IF "cdnDomain" \in DOMAIN d.f
    THEN IF "dir" \notin DOMAIN d.f THEN Fail("KeyError", 0)
         ELSE Ok(HTTPS \o d.f["cdnDomain"] \o <<"/">> \o d.f["dir"])
    ELSE Ok(d.f["url"])

\* downloadUrl, from the decoded access response
DownloadUrl(d) ==
    IF d.t # "map" THEN Fail("TypeError", 0)
    ELSE IF "url" \notin DOMAIN d.f THEN Fail("KeyError", 0)
    ELSE IF "cdnDomain" \in DOMAIN d.f /\ d.f["cdnDomain"] # <<>>
    THEN IF "dir" \notin DOMAIN d.f THEN Fail("KeyError", 0)
         ELSE Ok(HTTPS \o d.f["cdnDomain"] \o <<"/">> \o d.f["dir"])
    ELSE Ok(d.f["url"])

FloorMap == [t |-> "FloorMap"]
Generic == [t |-> "generic"]

\* the decoder with the secondary channel left out
DecoderPrimaryOnly(map) == IF map = 1 THEN "Map.parse" ELSE "json.loads"

\* the decoder get_map_data applies to the decrypted bytes
Decoder(map) == IF map = 1 \/ map = 2 THEN "Map.parse" ELSE "json.loads"

\* _download, decrypt_map and the decoder, each of which may raise
Fetch(r, url, map, dl_status, decrypt_ok, decode_ok) ==
    IF dl_status # 200
    THEN [r EXCEPT !.downloads = <<url>>, !.trace = r.trace \o <<"download">>,
                   !.outcome = Fail("KarcherHomeException", -1)]
    ELSE IF ~decrypt_ok
    THEN [r EXCEPT !.downloads = <<url>>, !.trace = r.trace \o <<"download", "decrypt">>,
                   !.outcome = Fail("MapDecryptError", 0)]
    ELSE [r EXCEPT !.downloads = <<url>>,
                   !.trace = r.trace \o <<"download", "decrypt", Decoder(map)>>,
                   !.outcome = IF ~decode_ok THEN Fail("MapDecodeError", 0)
                               ELSE IF Decoder(map) = "Map.parse" THEN Ok(FloorMap)
                               ELSE Ok(Generic)]

GetMapDataRun(s, dev, map, resp, ts, nonce, dl_status, decrypt_ok, decode_ok) ==
    IF s = None THEN Did(s, <<>>, <<>>, <<>>, Fail("AttributeError", 0))
    ELSE LET req == Request(s, "POST", AccessUrlPath, <<>>, MapBody(s, dev, map), ts, nonce)
             r == SignedCall(s, req, resp, NoProp)
         IN  IF r.outcome.kind # "ok" THEN r
             ELSE LET u == DownloadUrl(r.outcome.value)
                  IN  IF u.kind # "ok" THEN [r EXCEPT !.outcome = u]
                      ELSE Fetch(r, u.value, map, dl_status, decrypt_ok, decode_ok)


(***************************************************************************)
(* The inputs the signer is exercised on.                                  *)
(***************************************************************************)
Tokens == {<<>>, <<"T">>}
UserIds == {<<>>, <<"U">>}
Sessions == {None} \cup {Session(tk, u) : tk \in Tokens, u \in UserIds}
Timestamps == {<<"1">>, <<"2">>}
Nonces == {<<"x", "y">>}

Keys == {<<"a">>, <<"a", "a">>, <<"b">>, <<"c">>}
Values ==
    {Null, StrV(<<>>), StrV(<<"a">>), IntV(12),
     DictV(<< <<(<<"k">>), IntV(1)>>, <<(<<"j">>), StrV(<<"s">>)>> >>),
     ListV(<<IntV(1), IntV(2)>>)}

DistinctKeys(b) == \A i, j \in DOMAIN b : i # j => b[i][1] # b[j][1]

\* dict bodies: up to MaxFields fields, in insertion order
Bodies ==
    UNION {{b \in [1..n -> Keys \X Values] : DistinctKeys(b)} : n \in 0..MaxFields}

ParamKeys == {<<"k">>, <<"j">>}
ParamValues == {<<"v">>, <<"a", " ", "b">>}
ParamSets ==
    UNION {{b \in [1..n -> ParamKeys \X ParamValues] : DistinctKeys(b)} : n \in 0..MaxFields}

Reorderings(b) ==
    {[i \in 1..Len(b) |-> b[f[i]]] : f \in Permutations(1..Len(b))}

NoCall == [s |-> None, method |-> "", params |-> <<>>, json |-> <<>>,
           ts |-> <<>>, nonce |-> <<>>, params2 |-> <<>>, json2 |-> <<>>]

SignCalls ==
    {[NoCall EXCEPT !.s = s, !.method = "GET", !.params = p] :
        s \in Sessions, p \in ParamSets}
    \cup {[NoCall EXCEPT !.s = s, !.method = m, !.json = b] :
        s \in Sessions, m \in {"POST", "PUT"}, b \in Bodies}
    \cup {[NoCall EXCEPT !.s = s, !.method = "DELETE"] : s \in Sessions}

TestPath == <<"/", "x">>
RegionUrl == <<"r">>

(***************************************************************************)
(* SpecSign: _request as a function of its arguments.  A call is signed,   *)
(* then signed again with the same token, ts and nonce and a body whose    *)
(* fields are reordered (or, for GET, other query parameters).             *)
(***************************************************************************)
InitSign ==
    /\ base_url = RegionUrl
    /\ sess = None
    /\ op = "input"
    /\ call \in SignCalls
    /\ requests = <<>>
    /\ downloads = <<>>
    /\ trace = <<>>
    /\ outcome = None

SignRequest ==
    /\ op = "input"
    /\ \E ts \in Timestamps, nonce \in Nonces :
        /\ call' = [call EXCEPT !.ts = ts, !.nonce = nonce]
        /\ requests' = <<Request(call.s, call.method, TestPath, call.params,
                                  call.json, ts, nonce)>>
    /\ op' = "_request"
    /\ UNCHANGED <<base_url, sess, downloads, trace, outcome>>

SignVariant ==
    /\ op = "_request"
    /\ \E p \in (IF call.method = "GET" THEN ParamSets ELSE {call.params}),
          b \in Reorderings(call.json) :
        /\ call' = [call EXCEPT !.params2 = p, !.json2 = b]
        /\ requests' = Append(requests,
                Request(call.s, call.method, TestPath, p, b, call.ts, call.nonce))
    /\ op' = "_request2"
    /\ UNCHANGED <<base_url, sess, downloads, trace, outcome>>

NextSign == SignRequest \/ SignVariant

SpecSign == InitSign /\ [][NextSign]_vars

(***************************************************************************)
(* Claims about _request, checked under SpecSign.                          *)
(***************************************************************************)
TokenOf(s) == IF s.t = "none" THEN <<>> ELSE s.auth_token
UserOf(s) == IF s.t = "none" THEN <<>> ELSE s.user_id
Authorized(s) == TokenOf(s) # <<>> /\ UserOf(s) # <<>>
SignOf(r) == r.headers["sign"]
Prefix == TokenOf(call.s) \o call.ts \o call.nonce
IsBodyMethod == call.method \in {"POST", "PUT"}

\* C1 as stated: every GET request is signed with an empty canonical body,
\* sign = md5(authToken ++ ts ++ nonce), whatever its query parameters.
C1_GetSignsEmptyBody ==
    call.method = "GET" =>
        \A i \in DOMAIN requests : SignOf(requests[i]) = Md5(Prefix)

\* C1 amended: a GET request is signed over its URL-encoded query string,
\* sign = md5(authToken ++ ts ++ nonce ++ query); the canonical body is empty
\* exactly when there are no query parameters, and two GET requests with the
\* same token, ts and nonce carry the same signature exactly when their query
\* parameters are the same.
C1_GetSignsQuery ==
    call.method = "GET" =>
        /\ \A i \in DOMAIN requests :
              SignOf(requests[i]) = Md5(Prefix \o requests[i].query)
        /\ op # "input" =>
              /\ requests[1].query = <<>> <=> call.params = <<>>
              /\ SignOf(requests[1]) = Md5(Prefix) <=> call.params = <<>>
        /\ op = "_request2" =>
              (SignOf(requests[1]) = SignOf(requests[2]) <=> call.params = call.params2)

C1_Witness ==
    /\ op = "_request2"
    /\ call.method = "GET"
    /\ call.params # <<>>
    /\ call.params2 # call.params
    /\ SignOf(requests[1]) # SignOf(requests[2])
    /\ SignOf(requests[1]) # Md5(Prefix)

\* the rendering C2 states: JSON for a mapping and for a list
RenderAsClaimed(val) ==
    IF val.t = "null" THEN <<"n", "u", "l", "l">>
    ELSE IF val.t = "str" THEN val.s
    ELSE IF val.t \in {"dict", "list"} THEN JsonCompact(val)
    ELSE Decimal(val.n)

\* the rendering the code performs: JSON for a mapping only
RenderAsAmended(val) ==
    IF val.t = "null" THEN <<"n", "u", "l", "l">>
    ELSE IF val.t = "str" THEN val.s
    ELSE IF val.t = "dict" THEN JsonCompact(val)
    ELSE IF val.t = "list"
    THEN <<"[">> \o Join(<<",", " ">>, [i \in 1..Len(val.items) |-> Decimal(val.items[i].n)])
         \o <<"]">>
    ELSE Decimal(val.n)

\* C2 as stated: a POST/PUT request is signed over the fields in insertion
\* order, each name followed by its value: 'null', the raw string, compact JSON
\* for a mapping or a list, the decimal form otherwise; ts and nonce are the
\* values in the digest.
C2_SignJsonForStructured ==
    IsBodyMethod =>
        \A i \in DOMAIN requests :
            LET r == requests[i] IN
            /\ SignOf(r) = Md5(Prefix \o Concat([k \in 1..Len(r.json) |->
                                r.json[k][1] \o RenderAsClaimed(r.json[k][2])]))
            /\ r.headers["ts"] = call.ts
            /\ r.headers["nonce"] = call.nonce

\* C2 amended: as stated, except that compact JSON is used for a mapping
\* only; a list, like every other value, is rendered by its string form,
\* which for a list is bracketed with ', ' between the elements.
C2_SignCanonicalBody ==
    IsBodyMethod =>
        \A i \in DOMAIN requests :
            LET r == requests[i] IN
            /\ SignOf(r) = Md5(Prefix \o Concat([k \in 1..Len(r.json) |->
                                r.json[k][1] \o RenderAsAmended(r.json[k][2])]))
            /\ r.headers["ts"] = call.ts
            /\ r.headers["nonce"] = call.nonce

C2_Witness ==
    /\ op = "_request"
    /\ IsBodyMethod
    /\ Len(call.json) = 2
    /\ call.json[1][2].t = "dict"
    /\ call.json[2][2].t = "list"
    /\ call.ts # <<>>
    /\ SignOf(requests[1]) =
          Md5(Prefix \o call.json[1][1] \o JsonCompact(call.json[1][2])
                     \o call.json[2][1] \o <<"[", "1", ",", " ", "2", "]">>)

FirstChars(b) == {b[i][1][1] : i \in DOMAIN b}

\* C3 as stated: signing is deterministic, and for a POST/PUT body of two or
\* more fields every reordering that changes the sequence of the fields
\* changes the signing input and the signature.
C3_AnyReorderChangesInput ==
    (op = "_request2" /\ IsBodyMethod) =>
        /\ call.json2 = call.json => SignOf(requests[2]) = SignOf(requests[1])
        /\ (Len(call.json) >= 2 /\ call.json2 # call.json) =>
              SignOf(requests[2]) # SignOf(requests[1])

\* C3 amended: signing is deterministic, and for a POST/PUT body of two or
\* more fields whose names are non-empty and begin with pairwise different
\* characters, every reordering that changes the sequence of the fields
\* changes the signing input and the signature.
C3_ReorderChangesInput ==
    (op = "_request2" /\ IsBodyMethod) =>
        /\ call.json2 = call.json => SignOf(requests[2]) = SignOf(requests[1])
        /\ (/\ Len(call.json) >= 2
            /\ call.json2 # call.json
            /\ \A i \in DOMAIN call.json : call.json[i][1] # <<>>
            /\ Cardinality(FirstChars(call.json)) = Len(call.json)) =>
              SignOf(requests[2]) # SignOf(requests[1])

C3_Witness ==
    /\ op = "_request2"
    /\ IsBodyMethod
    /\ Len(call.json) >= 2
    /\ call.json2 # call.json
    /\ Cardinality(FirstChars(call.json)) = Len(call.json)
    /\ SignOf(requests[2]) # SignOf(requests[1])

\* C6 as stated: 'authorization' and 'id' are sent if and only if the session
\* is authorized (both values non-empty), and the five fixed headers always.
C6_SessionHeadersIffAuthorized ==
    \A i \in DOMAIN requests :
        LET h == DOMAIN requests[i].headers IN
        /\ {"User-Agent", "tenantId", "sign", "ts", "nonce"} \subseteq h
        /\ "authorization" \in h <=> Authorized(call.s)
        /\ "id" \in h <=> Authorized(call.s)

\* C6 amended: 'authorization' is sent if and only if there is a session with
\* a non-empty auth token, and 'id' if and only if there is a session with a
\* non-empty user id, each carrying that value; so an authorized session
\* sends both, no session sends neither, and a session with only one of the
\* two values sends only that one.  The five fixed headers are always sent.
C6_SessionHeadersPerValue ==
    \A i \in DOMAIN requests :
        LET hs == requests[i].headers
            h == DOMAIN hs
        IN
        /\ {"User-Agent", "tenantId", "sign", "ts", "nonce"} \subseteq h
        /\ "authorization" \in h <=> TokenOf(call.s) # <<>>
        /\ "id" \in h <=> UserOf(call.s) # <<>>
        /\ "authorization" \in h => hs["authorization"] = TokenOf(call.s)
        /\ "id" \in h => hs["id"] = UserOf(call.s)
        /\ Authorized(call.s) => {"authorization", "id"} \subseteq h
        /\ call.s = None => {"authorization", "id"} \cap h = {}

C6_Witness ==
    /\ op = "_request"
    /\ TokenOf(call.s) # <<>>
    /\ UserOf(call.s) = <<>>
    /\ "authorization" \in DOMAIN requests[1].headers
    /\ "id" \notin DOMAIN requests[1].headers

(***************************************************************************)
(* Spec: a caller holding one session variable invokes the operations.     *)
(***************************************************************************)
ApiUrl == <<"a", "p", "i">>

Responses(results) ==
    {NetDown, Response(500, TRUE, 0, Absent), Response(200, FALSE, 0, Absent),
     Response(200, TRUE, ACCESS_DENIED_CODE, Absent), Response(200, TRUE, 5, Absent)}
        \cup {Response(200, TRUE, 0, r) : r \in results}

LoginResults ==
    {MapV([auth_token |-> tk, user_id |-> u]) : tk \in Tokens, u \in UserIds}
        \cup {MapV([x \in {"auth_token"} |-> <<"T">>]), Absent, StrV(<<"e", "r", "r">>)}

PlainResults == {Absent, StrV(<<"e", "r", "r">>), ListV(<<>>), MapV([x \in {"k"} |-> <<"v">>])}

AccessResults ==
    {MapV([x \in D |-> [url |-> <<"u">>, cdnDomain |-> cdn, dir |-> <<"d">>][x]]) :
        D \in SUBSET {"url", "cdnDomain", "dir"}, cdn \in {<<>>, <<"c">>}}
        \cup {Absent, StrV(<<"e", "r", "r">>)}

Channels == 0..MaxChannel
Usernames == {<<"a", "@", "b">>, <<"1", "2", "3", "4", "5">>}

Init ==
    /\ base_url \in {RegionUrl, ApiUrl}
    /\ sess = None
    /\ op = "__init__"
    /\ call = [s |-> None, map |-> 0, resp |-> NetDown]
    /\ requests = <<>>
    /\ downloads = <<>>
    /\ trace = <<>>
    /\ outcome = None

Apply(name, s, map, resp, after, r) ==
    /\ op' = name
    /\ call' = [s |-> s, map |-> map, resp |-> resp]
    /\ sess' = after
    /\ requests' = r.requests
    /\ downloads' = r.downloads
    /\ trace' = r.trace
    /\ outcome' = r.outcome
    /\ UNCHANGED base_url

\* one clock reading and one nonce suffice for the operations
OpTimestamps == {<<"1">>}
OpNonces == {<<"x">>}

GetUrls ==
    \E resp \in Responses(DomainResults), ts \in OpTimestamps, nonce \in OpNonces :
        Apply("get_urls", None, 0, resp, sess, GetUrlsRun(resp, ts, nonce))

Login ==
    \E resp \in Responses(LoginResults), u \in Usernames, ts \in OpTimestamps, nonce \in OpNonces :
        LET r == LoginRun(sess, u, <<"p", "w">>, <<"r", "i", "d">>, resp, ts, nonce)
        IN  Apply("login", None, 0, resp, r.sess, r)

Logout ==
    \E resp \in Responses(PlainResults), ts \in OpTimestamps, nonce \in OpNonces :
        LET r == LogoutRun(sess, resp, ts, nonce)
        IN  Apply("logout", sess, 0, resp, r.sess, r)

GetDevices ==
    \E resp \in Responses(PlainResults), ts \in OpTimestamps, nonce \in OpNonces :
        Apply("get_devices", sess, 0, resp, sess, GetDevicesRun(sess, resp, ts, nonce))

GetFamilies ==
    \E resp \in Responses(PlainResults), ts \in OpTimestamps, nonce \in OpNonces :
        Apply("get_families", sess, 0, resp, sess, GetFamiliesRun(sess, resp, ts, nonce))

GetConsumables ==
    \E resp \in Responses(PlainResults), ts \in OpTimestamps, nonce \in OpNonces :
        Apply("get_consumables", sess, 0, resp, sess,
              GetConsumablesRun(sess, <<"f", "1">>, resp, ts, nonce))

GetMapData ==
    \E resp \in Responses(AccessResults), map \in Channels,
       ts \in OpTimestamps, nonce \in OpNonces,
       dl_status \in {200, 404}, decrypt_ok \in BOOLEAN, decode_ok \in BOOLEAN :
        \* a step that does not run has no outcome to choose
        /\ dl_status # 200 => (decrypt_ok /\ decode_ok)
        /\ ~decrypt_ok => decode_ok
        /\ Apply("get_map_data", sess, map, resp, sess,
              GetMapDataRun(sess, Dev, map, resp, ts, nonce, dl_status, decrypt_ok, decode_ok))

Next ==
    \/ GetUrls
    \/ Login
    \/ Logout
    \/ GetDevices
    \/ GetFamilies
    \/ GetConsumables
    \/ GetMapData

Spec == Init /\ [][Next]_vars

(***************************************************************************)
(* Claims about the operations, checked under Spec.                        *)
(***************************************************************************)
AuthOps == {"get_devices", "get_families", "get_consumables", "get_map_data"}

\* C5: an operation whose endpoint requires authentication, called with a
\* session that is not authorized (absent, or with an empty auth token or an
\* empty user id), raises AccessDenied and issues no network request.
C5_RejectsUnauthorized ==
    (op \in AuthOps /\ ~Authorized(call.s)) =>
        /\ outcome.kind = "KarcherHomeAccessDenied"
        /\ requests = <<>>
        /\ downloads = <<>>

\* C7: logout on a session whose auth token or user id is empty resets the
\* session to the empty state and returns without any network request; and
\* whenever logout returns normally the session is unauthorized afterwards.
C7_LogoutResets ==
    op = "logout" =>
        /\ (call.s # None /\ ~Authorized(call.s)) =>
              /\ outcome.kind = "ok"
              /\ sess = Session(<<>>, <<>>)
              /\ requests = <<>>
              /\ downloads = <<>>
        /\ outcome.kind = "ok" => ~Authorized(sess)

C7_Witness ==
    /\ op = "logout"
    /\ call.s = Session(<<"T">>, <<>>)
    /\ outcome.kind = "ok"
    /\ sess = Session(<<>>, <<>>)
    /\ requests = <<>>

\* the access response get_map_data decoded successfully into a mapping
AccessDecoded ==
    /\ op = "get_map_data"
    /\ call.s # None
    /\ call.resp.status = 200
    /\ call.resp.json_ok
    /\ call.resp.code = 0
    /\ call.resp.result.t = "map"
AccessHas(k) == k \in DOMAIN call.resp.result.f
AccessField(k) == call.resp.result.f[k]
CdnUrl ==
    <<"h", "t", "t", "p", "s", ":", "/", "/">> \o AccessField("cdnDomain")
        \o <<"/">> \o AccessField("dir")
HasCdn == AccessHas("cdnDomain") /\ AccessField("cdnDomain") # <<>>

\* C8 as stated: with a non-empty 'cdnDomain' and a 'dir' the URL downloaded
\* is https://{cdnDomain}/{dir}, whether or not 'url' is present; with only
\* 'url' (no 'cdnDomain', or an empty one) it is that URL unchanged.
C8_CdnWithOrWithoutUrl ==
    (AccessDecoded /\ Authorized(call.s)) =>
        /\ (HasCdn /\ AccessHas("dir")) => downloads = <<CdnUrl>>
        /\ (AccessHas("url") /\ ~HasCdn) => downloads = <<AccessField("url")>>

\* C8 amended: the literal 'url' is read first, so it must be present: with
\* 'url', a non-empty 'cdnDomain' and a 'dir' the URL downloaded is
\* https://{cdnDomain}/{dir} (the CDN domain takes precedence over the literal
\* URL); with 'url' and no 'cdnDomain', or an empty one, it is that URL
\* unchanged; without 'url' the call fails with a KeyError and downloads
\* nothing, whatever 'cdnDomain' and 'dir' hold.
C8_CdnOverUrl ==
    AccessDecoded =>
        /\ (AccessHas("url") /\ HasCdn /\ AccessHas("dir")) => downloads = <<CdnUrl>>
        /\ (AccessHas("url") /\ ~HasCdn) => downloads = <<AccessField("url")>>
        /\ ~AccessHas("url") => (downloads = <<>> /\ outcome.kind = "KeyError")

C8_Witness ==
    /\ AccessDecoded
    /\ AccessHas("url")
    /\ HasCdn
    /\ AccessHas("dir")
    /\ downloads = << <<"h", "t", "t", "p", "s", ":", "/", "/", "c", "/", "d">> >>

DecodeSteps == {i \in DOMAIN trace : trace[i] \in {"Map.parse", "json.loads"}}

\* C9: the decoder is chosen by the channel alone: channel 1 or 2 decodes with
\* the binary FloorMap decoder, every other channel decodes as JSON and never
\* yields a FloorMap; one decoder runs, with no fallback to the other.
C9_DecoderByChannel ==
    op = "get_map_data" =>
        /\ Cardinality(DecodeSteps) <= 1
        /\ \A i \in DecodeSteps :
              trace[i] = (IF call.map \in {1, 2} THEN "Map.parse" ELSE "json.loads")
        /\ outcome.kind = "ok" =>
              /\ Cardinality(DecodeSteps) = 1
              /\ outcome.value = (IF call.map \in {1, 2} THEN FloorMap ELSE Generic)
        /\ outcome.kind = "MapDecodeError" => Cardinality(DecodeSteps) = 1

C9_Witness ==
    /\ op = "get_map_data"
    /\ call.map = 2
    /\ outcome.kind = "ok"
    /\ outcome.value = FloorMap
    /\ trace[Len(trace)] = "Map.parse"

IsPrefix(a, b) == Len(a) <= Len(b) /\ \A i \in DOMAIN a : a[i] = b[i]
AccessFailed ==
    \/ call.resp = NetDown
    \/ call.resp.status # 200
    \/ ~call.resp.json_ok
    \/ call.resp.code # 0
    \/ call.resp.result.t = "str"

\* C10: every operation is fail-fast with no retry.  get_map_data runs signed
\* request, envelope decode, download, blob decrypt, decode, in that order,
\* with at most one signed request and one download, stops at the step that
\* fails and downloads nothing when the access request or its decoding failed;
\* logout on an authorized session issues exactly one request and, when that
\* request fails, leaves the session unchanged.
C10_FailFast ==
    /\ Len(requests) <= 1
    /\ Len(downloads) <= 1
    /\ op = "get_map_data" =>
          LET full == <<"request", "process", "download", "decrypt",
                        IF call.map \in {1, 2} THEN "Map.parse" ELSE "json.loads">>
          IN  /\ IsPrefix(trace, full)
              /\ Len(requests) = 1 <=> Len(trace) >= 1
              /\ Len(downloads) = 1 <=> Len(trace) >= 3
              /\ trace = full \/ outcome.kind # "ok"
              /\ (call.s # None /\ call.resp = NetDown) => trace = <<"request">>
              /\ AccessFailed => (downloads = <<>> /\ outcome.kind # "ok" /\ Len(trace) <= 2)
    /\ (op = "logout" /\ Authorized(call.s)) =>
          /\ Len(requests) = 1
          /\ outcome.kind = "ok" => trace = <<"request", "process", "reset">>
          /\ outcome.kind # "ok" =>
                (sess = call.s /\ IsPrefix(trace, <<"request", "process">>))
          /\ AccessFailed => outcome.kind # "ok"
    /\ op \in {"get_urls", "login", "get_devices", "get_families", "get_consumables"} =>
          /\ IsPrefix(trace, <<"request", "process">>)
          /\ downloads = <<>>
          /\ Len(requests) = 1 <=> Len(trace) >= 1
          /\ (AccessFailed /\ requests # <<>>) => outcome.kind # "ok"

C10_Witness ==
    /\ op = "logout"
    /\ Authorized(call.s)
    /\ outcome.kind # "ok"
    /\ Len(requests) = 1
    /\ sess = call.s

====
